---- MODULE Spec2Model ----
(***************************************************************************)
(* Model of src/streamlit_app.py, the AT Utilisation Explorer: one run of  *)
(* the script from the upload to the last chart.  Tables are sequences of  *)
(* records keyed by the canonical column names; a missing cell is Null in  *)
(* a text column and NaN in a numeric or date column, as pandas reads it.  *)
(***************************************************************************)
EXTENDS Integers, Sequences, FiniteSets, TLC

VARIABLES
    pc,         \* position of the script run
    upload,     \* the uploaded file (st.sidebar.file_uploader)
    files,      \* content of the three data files, when the upload holds them
    dfs,        \* load_data's mapping: file name -> table
    df_part, df_plan, df_claim,
    merged,     \* the merged frame (reassigned by the two toggles)
    f_sel,      \* the six multiselect results f_source .. f_items, by column
    toggles,    \* the two checkboxes
    filtered,
    plan_draw, draw_filt,
    kpi,        \* cap_total, paid_total, util_pct, zero_count, partial_count
    util_state, util_mmm,
    curve,      \* the cumulative paid-claim frame
    league,
    shown,      \* what the run has put on the page, in order
    error       \* the exception that ended the run, "" when none

vars == <<pc, upload, files, dfs, df_part, df_plan, df_claim, merged, f_sel,
          toggles, filtered, plan_draw, draw_filt, kpi, util_state, util_mmm,
          curve, league, shown, error>>

----------------------------------------------------------------------------
(* Missing values and float results *)

\* a missing cell of a text column (NaN in an object column)
Null == "null"

\* a missing cell of a numeric or date column (NaN / NaT); every real
\* amount and every real date of the model is >= 0
NaN == -1

\* a date cell whose text pd.to_datetime cannot parse
BadDate == -2

\* the result of a float division: a quotient n/d with d > 0, nan or inf
Quot(a, b) == [k |-> "num", n |-> a, d |-> b]
NaNf == [k |-> "nan", n |-> 0, d |-> 1]
Inff == [k |-> "inf", n |-> 1, d |-> 1]

\* a / b on float64 columns: x/0 is inf, 0/0 is nan, nan propagates
Div(a, b) ==
    IF a = NaN \/ b = NaN THEN NaNf
    ELSE IF b = 0 THEN (IF a = 0 THEN NaNf ELSE Inff)
    ELSE Quot(a, b)

\* x * 100
Times100(x) == IF x.k = "num" THEN Quot(x.n * 100, x.d) ELSE x

\* x == z and x < z for an integer z: False on nan, and on inf
FEqInt(x, z) == x.k = "num" /\ x.n = z * x.d
FLtInt(x, z) == x.k = "num" /\ x.n < z * x.d
FLeq(x, y) == x.k = "num" /\ y.k = "num" /\ x.n * y.d <= y.n * x.d

----------------------------------------------------------------------------
(* Frame helpers (pandas) *)

RECURSIVE Flatten(_)
Flatten(ss) == IF ss = <<>> THEN <<>> ELSE Head(ss) \o Flatten(Tail(ss))

\* Series.unique(): the distinct values, the missing one included
Unique(df, col) == {df[i][col] : i \in 1..Len(df)}

\* Series.dropna().unique()
UniqueDropna(df, col) == Unique(df, col) \ {Null}

\* Series.sum(): missing cells are skipped, an empty sum is 0
RECURSIVE SumCol(_, _)
SumCol(df, col) ==
    IF df = <<>> THEN 0
    ELSE (IF Head(df)[col] = NaN THEN 0 ELSE Head(df)[col]) + SumCol(Tail(df), col)

\* Series.count() of a text column: the cells that are not missing
CountCol(df, col) == Cardinality({i \in 1..Len(df) : df[i][col] # Null})

\* Series.count() of a numeric column
CountNum(df, col) == Cardinality({i \in 1..Len(df) : df[i][col] # NaN})

\* the key comparison of DataFrame.merge: equal keys match, and a missing
\* key matches a missing key
KeyMatch(a, b) == a = b

\* DataFrame.merge(right, on=key, how='left'): every left row in order, once
\* per matching right row in the right's order, or once with the right's
\* columns missing when nothing matches
LeftMerge(left, right, key, missing) ==
    Flatten([i \in 1..Len(left) |->
        LET m == SelectSeq(right, LAMBDA r : KeyMatch(left[i][key], r[key]))
        IN  IF m = <<>> THEN << left[i] @@ missing >>
            ELSE [j \in 1..Len(m) |-> left[i] @@ m[j]]])

\* an isin under which a missing cell is in no set of values
IsInSql(v, values) == v # Null /\ v \in values

\* Series.isin(values): a missing cell is in values that hold a missing one
IsIn(v, values) == v \in values

\* ascending order of a finite set of integers
RECURSIVE SortAsc(_)
SortAsc(S) ==
    IF S = {} THEN <<>>
    ELSE LET m == CHOOSE x \in S : \A y \in S : x <= y
         IN  <<m>> \o SortAsc(S \ {m})

\* the group keys of groupby(col): missing keys dropped, sorted
GroupKeys(df, col, order) == SelectSeq(order, LAMBDA k : k \in Unique(df, col))

----------------------------------------------------------------------------
(* Load data *)

EXPECTED == {"a_participant.csv", "b_plan.csv", "c_claim_line.csv",
             "benchmark_history.csv", "supplementary_item_list.csv"}

Required == {"a_participant.csv", "b_plan.csv", "c_claim_line.csv"}

NoUpload == [ext |-> "none", name |-> "", members |-> {}]

\* the table _read_lower parses from the file of that name
ReadLower(name) == IF name \in DOMAIN files THEN files[name] ELSE <<>>

\* load_data: a member of an archive is [tail, macosx], its lower-cased base
\* name and whether its path holds '__macosx'
LoadData(u) ==
    IF u.ext = "none" THEN <<>>
    ELSE IF u.ext = "csv" THEN [n \in {u.name} |-> ReadLower(n)]
    ELSE IF u.ext = "zip" THEN
        [n \in {m.tail : m \in {x \in u.members : ~x.macosx /\ x.tail \in EXPECTED}}
            |-> ReadLower(n)]
    ELSE <<>>

\* the 'Missing: ...' warning of load_data
MissingOf(u) == EXPECTED \ {m.tail : m \in {x \in u.members : ~x.macosx}}

\* what load_data puts on the page
LoadMessages(u) ==
    IF u.ext = "zip" THEN (IF MissingOf(u) # {} THEN <<"warning: Missing">> ELSE <<>>)
    ELSE IF u.ext \in {"none", "csv"} THEN <<>>
    ELSE <<"error: Upload a .csv or .zip only">>

EmptyFrames ==
    /\ df_part = <<>> /\ df_plan = <<>> /\ df_claim = <<>>
    /\ merged = <<>> /\ filtered = <<>>
    /\ plan_draw = <<>> /\ draw_filt = <<>>
    /\ util_state = <<>> /\ util_mmm = <<>> /\ curve = <<>> /\ league = <<>>

NoKpi == [cap_total |-> 0, paid_total |-> 0, util_pct |-> Quot(0, 1),
          zero_count |-> 0, partial_count |-> 0]

Load ==
    /\ pc = "start"
    /\ dfs' = LoadData(upload)
    /\ shown' = shown \o LoadMessages(upload)
    /\ pc' = "loaded"
    /\ UNCHANGED <<upload, files, df_part, df_plan, df_claim, merged, f_sel,
                   toggles, filtered, plan_draw, draw_filt, kpi, util_state,
                   util_mmm, curve, league, error>>

\* if len(dfs) < 3: st.info(...); st.stop()
MinTables == 3

Gate ==
    /\ pc = "loaded"
    /\ IF Cardinality(DOMAIN dfs) < MinTables
       THEN /\ shown' = Append(shown, "info: Please upload the required CSVs")
            /\ pc' = "prompt"
       ELSE /\ shown' = shown
            /\ pc' = "gated"
    /\ UNCHANGED <<upload, files, dfs, df_part, df_plan, df_claim, merged,
                   f_sel, toggles, filtered, plan_draw, draw_filt, kpi,
                   util_state, util_mmm, curve, league, error>>

\* df_part = dfs['a_participant.csv'].copy() and the two lines after it: a
\* name the mapping lacks raises KeyError
Assign ==
    /\ pc = "gated"
    /\ IF Required \subseteq DOMAIN dfs
       THEN /\ df_part' = dfs["a_participant.csv"]
            /\ df_plan' = dfs["b_plan.csv"]
            /\ df_claim' = dfs["c_claim_line.csv"]
            /\ pc' = "assigned"
            /\ error' = error
       ELSE /\ UNCHANGED <<df_part, df_plan, df_claim>>
            /\ pc' = "crashed"
            /\ error' = "KeyError"
    /\ UNCHANGED <<upload, files, dfs, merged, f_sel, toggles, filtered,
                   plan_draw, draw_filt, kpi, util_state, util_mmm, curve,
                   league, shown>>

----------------------------------------------------------------------------
(* Renaming, enrichment and merge *)

\* the Primary_Disability texts of the model that the pattern
\* (motor neurone|multiple sclerosis|muscular dystrophy|huntington), re.I, finds
Degenerative == {"Multiple Sclerosis", "huntington's disease"}

\* bool(pattern.search(x)) after fillna(''): a missing text is searched as ''
PatternSearch(text) == IF text = Null THEN "False"
                       ELSE IF text \in Degenerative THEN "True" ELSE "False"

\* pd.to_datetime(..., errors='coerce'): a date, or NaT for a missing or
\* unparseable cell
ToDatetime(cell) == IF cell >= 0 THEN cell ELSE NaN

\* lines 103-117: the columns take their canonical names (the records of the
\* model carry them already), Degenerative_Flag is added, the dates are parsed
Normalize ==
    /\ pc = "assigned"
    /\ df_part' = [i \in 1..Len(df_part) |->
                     df_part[i] @@ [Degenerative_Flag |->
                                      PatternSearch(df_part[i].Primary_Disability)]]
    /\ df_plan' = [i \in 1..Len(df_plan) |->
                     [df_plan[i] EXCEPT !.Plan_Start_Date = ToDatetime(@)]]
    /\ df_claim' = [i \in 1..Len(df_claim) |->
                     [df_claim[i] EXCEPT !.Service_Date = ToDatetime(@)]]
    /\ pc' = "normalized"
    /\ UNCHANGED <<upload, files, dfs, merged, f_sel, toggles, filtered,
                   plan_draw, draw_filt, kpi, util_state, util_mmm, curve,
                   league, shown, error>>

\* the columns a left merge leaves missing when no plan / participant matches
NoPlan == [Hashed_Participant_ID |-> Null, Plan_Start_Date |-> NaN,
           Capital_AT_Budget_Total_AUD |-> NaN, Plan_Management_Mode |-> Null]
NoPart == [State |-> Null, MMM_Code |-> Null, Age_Band |-> Null,
           Degenerative_Flag |-> Null]
NoPartBase == [State |-> Null, MMM_Code |-> Null, Age_Band |-> Null]

\* df_part[[...]]: a column selection
Project(df, cols) == [i \in 1..Len(df) |-> [c \in cols |-> df[i][c]]]

\* merged = df_claim.merge(df_plan, on='Plan_ID', how='left')
\*                  .merge(df_part[[...]], on='Hashed_Participant_ID', how='left')
MergedOf(claim, plan, part) ==
    LeftMerge(LeftMerge(claim, plan, "Plan_ID", NoPlan),
              Project(part, {"Hashed_Participant_ID", "State", "MMM_Code",
                             "Age_Band", "Degenerative_Flag"}),
              "Hashed_Participant_ID", NoPart)

Merge ==
    /\ pc = "normalized"
    /\ merged' = MergedOf(df_claim, df_plan, df_part)
    /\ pc' = "merged"
    /\ UNCHANGED <<upload, files, dfs, df_part, df_plan, df_claim, f_sel,
                   toggles, filtered, plan_draw, draw_filt, kpi, util_state,
                   util_mmm, curve, league, shown, error>>

----------------------------------------------------------------------------
(* Filters *)

\* the six columns with a multiselect, in the order of lines 132-137
FilterCols == <<"Source_System", "State", "MMM_Code", "Age_Band",
                "Plan_Management_Mode", "Support_Item_Number">>
FilterColSet == {FilterCols[i] : i \in 1..Len(FilterCols)}

\* the options of a box: merged[col].dropna().unique()
OptionsOf(df) == [c \in FilterColSet |-> UniqueDropna(df, c)]

\* default=merged[col].unique()
DefaultSel(df) == [c \in FilterColSet |-> Unique(df, c)]

\* the six multiselects: the options are the values that are not missing, the
\* default is every value.  The user leaves a box as it is or narrows it; the
\* model narrows at most one box, by one value.  A default that is not among
\* the options (the missing value) is the widget library's to accept or to
\* refuse with an exception; both are modelled.
Select ==
    /\ pc = "merged"
    /\ \E refuse \in (IF \E c \in FilterColSet :
                            ~(DefaultSel(merged)[c] \subseteq OptionsOf(merged)[c])
                      THEN BOOLEAN ELSE {FALSE}) :
         IF refuse
         THEN /\ pc' = "crashed"
              /\ error' = "StreamlitAPIException"
              /\ f_sel' = f_sel
         ELSE /\ \E c \in FilterColSet \cup {"none"} :
                   \E v \in (IF c = "none" THEN {Null} ELSE DefaultSel(merged)[c]) :
                      f_sel' = [x \in FilterColSet |->
                                  IF x = c THEN DefaultSel(merged)[x] \ {v}
                                  ELSE DefaultSel(merged)[x]]
              /\ pc' = "selected"
              /\ error' = error
    /\ UNCHANGED <<upload, files, dfs, df_part, df_plan, df_claim, merged,
                   toggles, filtered, plan_draw, draw_filt, kpi, util_state,
                   util_mmm, curve, league, shown>>

\* merged['Original_Claimed_UnitPrice_AUD'] > merged['Benchmark_UnitPrice_AUD']:
\* a comparison with a missing value is False
Breach(r) ==
    /\ r.Original_Claimed_UnitPrice_AUD # NaN
    /\ r.Benchmark_UnitPrice_AUD # NaN
    /\ r.Original_Claimed_UnitPrice_AUD > r.Benchmark_UnitPrice_AUD

\* merged[merged['Degenerative_Flag']]: a mask with a missing value in it
\* raises ValueError
MaskHasNa(df) == \E i \in 1..Len(df) : df[i].Degenerative_Flag = Null

DegenerativeOnly(df) == SelectSeq(df, LAMBDA r : r.Degenerative_Flag = "True")
BreachesOnly(df) == SelectSeq(df, Breach)

\* lines 138-141: the two checkboxes, each reassigning merged
Toggle ==
    /\ pc = "selected"
    /\ \E deg \in BOOLEAN, br \in BOOLEAN :
         /\ toggles' = [degenerative |-> deg, breaches |-> br]
         /\ IF deg /\ MaskHasNa(merged)
            THEN /\ pc' = "crashed"
                 /\ error' = "ValueError"
                 /\ merged' = merged
            ELSE /\ LET m1 == IF deg THEN DegenerativeOnly(merged) ELSE merged
                    IN  merged' = IF br THEN BreachesOnly(m1) ELSE m1
                 /\ pc' = "toggled"
                 /\ error' = error
    /\ UNCHANGED <<upload, files, dfs, df_part, df_plan, df_claim, f_sel,
                   filtered, plan_draw, draw_filt, kpi, util_state, util_mmm,
                   curve, league, shown>>

\* the mask of lines 142-149: the conjunction of the six isin tests
Keeps(sel, r) == \A c \in FilterColSet : IsIn(r[c], sel[c])

FilteredOf(df, sel) == SelectSeq(df, LAMBDA r : Keeps(sel, r))

\* a run that never takes the empty-result exit
StopsNever(df) == FALSE

\* if filtered.empty: st.warning(...); st.stop()
StopsAsEmpty(df) == df = <<>>

Filter ==
    /\ pc = "toggled"
    /\ filtered' = FilteredOf(merged, f_sel)
    /\ IF StopsAsEmpty(filtered')
       THEN /\ shown' = Append(shown, "warning: No data matches filters")
            /\ pc' = "nodata"
       ELSE /\ shown' = shown
            /\ pc' = "filtered"
    /\ UNCHANGED <<upload, files, dfs, df_part, df_plan, df_claim, merged,
                   f_sel, toggles, plan_draw, draw_filt, kpi, util_state,
                   util_mmm, curve, league, error>>

----------------------------------------------------------------------------
(* Plan draw-down and KPI cards *)

\* the values of the model's text columns in sorted order (groupby sorts its keys)
PlanIdOrder == <<"PL1", "PL2">>
StateOrder == <<"NSW", "QLD", "VIC">>
MmmOrder == <<"MM1", "MM2">>
ItemOrder == <<"I1", "I2">>

\* plan_base = df_plan.merge(df_part[[...]], on='Hashed_Participant_ID', how='left')
PlanBaseOf(plan, part) ==
    LeftMerge(plan,
              Project(part, {"Hashed_Participant_ID", "State", "MMM_Code", "Age_Band"}),
              "Hashed_Participant_ID", NoPartBase)

\* paid_sum = filtered.groupby('Plan_ID')['Paid_UnitPrice_AUD'].sum()
\*                    .reset_index(name='Paid'): one row per Plan_ID that is
\* not missing
PaidSumOf(df) ==
    LET keys == GroupKeys(df, "Plan_ID", PlanIdOrder)
    IN  [i \in 1..Len(keys) |->
            [Plan_ID |-> keys[i],
             Paid |-> SumCol(SelectSeq(df, LAMBDA r : r.Plan_ID = keys[i]),
                             "Paid_UnitPrice_AUD")]]

\* fillna({'Paid': 0})
FillPaid(df) ==
    [i \in 1..Len(df) |-> [df[i] EXCEPT !.Paid = IF @ = NaN THEN 0 ELSE @]]

\* plan_draw['DrawPct'] = plan_draw['Paid'] / plan_draw['Capital_AT_Budget_Total_AUD']
DrawPctOf(paid, budget) == Div(paid, budget)

\* lines 157-162
PlanDrawOf(plan, part, filt) ==
    LET joined == FillPaid(LeftMerge(PlanBaseOf(plan, part), PaidSumOf(filt),
                                     "Plan_ID", [Paid |-> NaN]))
    IN  [i \in 1..Len(joined) |->
            joined[i] @@ [DrawPct |-> DrawPctOf(joined[i].Paid,
                                     joined[i].Capital_AT_Budget_Total_AUD)]]

\* draw_filt = plan_draw[plan_draw['Plan_ID'].isin(filtered['Plan_ID'].unique())]
DrawFiltOf(draw, filt) ==
    SelectSeq(draw, LAMBDA r : IsIn(r.Plan_ID, Unique(filt, "Plan_ID")))

PlanDraw ==
    /\ pc = "filtered"
    /\ plan_draw' = PlanDrawOf(df_plan, df_part, filtered)
    /\ draw_filt' = DrawFiltOf(plan_draw', filtered)
    /\ pc' = "drawn"
    /\ UNCHANGED <<upload, files, dfs, df_part, df_plan, df_claim, merged,
                   f_sel, toggles, filtered, kpi, util_state, util_mmm, curve,
                   league, shown, error>>

\* lines 168-172
KpiOf(draw) ==
    LET cap == SumCol(draw, "Capital_AT_Budget_Total_AUD")
        paid == SumCol(draw, "Paid")
    IN  [cap_total |-> cap,
         paid_total |-> paid,
         util_pct |-> IF cap # 0 THEN Times100(Div(paid, cap)) ELSE Quot(0, 1),
         zero_count |-> Cardinality({i \in 1..Len(draw) : FEqInt(draw[i].DrawPct, 0)}),
         partial_count |-> Cardinality({i \in 1..Len(draw) : FLtInt(draw[i].DrawPct, 1)})]

Kpi ==
    /\ pc = "drawn"
    /\ kpi' = KpiOf(draw_filt)
    /\ shown' = Append(shown, "KPI cards")
    /\ pc' = "kpi"
    /\ UNCHANGED <<upload, files, dfs, df_part, df_plan, df_claim, merged,
                   f_sel, toggles, filtered, plan_draw, draw_filt, util_state,
                   util_mmm, curve, league, error>>

----------------------------------------------------------------------------
(* Charts and tables *)

\* Util = Paid / Budget * 100 of one group
GroupUtil(paid, budget) == Times100(Div(paid, budget))

\* draw_filt.groupby(col, as_index=False)
\*          .agg(Paid=('Paid','sum'), Budget=('Capital_AT_Budget_Total_AUD','sum'))
\*          .assign(Util=lambda df: df['Paid']/df['Budget']*100)
UtilBy(draw, col, order) ==
    LET keys == GroupKeys(draw, col, order)
    IN  [i \in 1..Len(keys) |->
            LET g == SelectSeq(draw, LAMBDA r : r[col] = keys[i])
                paid == SumCol(g, "Paid")
                budget == SumCol(g, "Capital_AT_Budget_Total_AUD")
            IN  [Key |-> keys[i], Paid |-> paid, Budget |-> budget,
                 Util |-> GroupUtil(paid, budget)]]

Charts ==
    /\ pc = "kpi"
    /\ util_state' = UtilBy(draw_filt, "State", StateOrder)
    /\ util_mmm' = UtilBy(draw_filt, "MMM_Code", MmmOrder)
    /\ shown' = shown \o <<"Utilisation by State", "Utilisation by MMM region",
                           "Plan draw-down distribution", "Waterfall diagnostics",
                           "Budget attrition waterfall", "Breach ratio distribution">>
    /\ pc' = "charts"
    /\ UNCHANGED <<upload, files, dfs, df_part, df_plan, df_claim, merged,
                   f_sel, toggles, filtered, plan_draw, draw_filt, kpi, curve,
                   league, error>>

\* (df['Service_Date'] - df['Plan_Start_Date']).dt.days is missing when
\* either date is
DayMissing(r) == r.Service_Date = NaN \/ r.Plan_Start_Date = NaN

\* the whole days between the two dates, when neither is missing
DayOf(r) == r.Service_Date - r.Plan_Start_Date

\* filtered.assign(Day=...).query('Day>=0'): a missing Day compares False
EligibleOf(filt) ==
    LET kept == SelectSeq(filt, LAMBDA r : ~DayMissing(r) /\ DayOf(r) >= 0)
    IN  [i \in 1..Len(kept) |-> kept[i] @@ [Day |-> DayOf(kept[i])]]

\* running sum of a sequence of integers
RECURSIVE CumSum(_)
CumSum(s) ==
    IF s = <<>> THEN <<>>
    ELSE LET front == CumSum(SubSeq(s, 1, Len(s) - 1))
         IN  Append(front, (IF front = <<>> THEN 0 ELSE front[Len(front)]) + s[Len(s)])

\* the order in which the Day groups are laid out before the cumulative sum
DayOrder(days) == SortAsc(days)

\* o.groupby('Day', as_index=False).agg(Count=('Claim_ID','count'))
\*  .assign(Cum=lambda df: df['Count'].cumsum(),
\*          Pct=lambda df: df['Cum']/df['Count'].sum()*100)
CurveOf(filt) ==
    LET o == EligibleOf(filt)
        days == DayOrder({o[i].Day : i \in 1..Len(o)})
        count == [i \in 1..Len(days) |->
                    CountCol(SelectSeq(o, LAMBDA r : r.Day = days[i]), "Claim_ID")]
        cum == CumSum(count)
        total == IF cum = <<>> THEN 0 ELSE cum[Len(cum)]
    IN  [i \in 1..Len(days) |->
            [Day |-> days[i], Count |-> count[i], Cum |-> cum[i],
             Pct |-> Times100(Div(cum[i], total))]]

\* .head(50) of the league table
LeagueHead == 50

\* a stable sort by Paid, descending
RECURSIVE SortByPaidDesc(_)
SortByPaidDesc(s) ==
    IF s = <<>> THEN <<>>
    ELSE LET top == CHOOSE i \in 1..Len(s) :
                       /\ \A j \in 1..Len(s) : s[j].Paid <= s[i].Paid
                       /\ \A j \in 1..(i - 1) : s[j].Paid < s[i].Paid
         IN  <<s[top]>> \o SortByPaidDesc(SubSeq(s, 1, top - 1) \o SubSeq(s, top + 1, Len(s)))

\* filtered.groupby('Support_Item_Number', as_index=False)
\*         .agg(Claims=('Claim_ID','count'), Paid=('Paid_UnitPrice_AUD','sum'),
\*              Avg_Price=('Original_Claimed_UnitPrice_AUD','mean'))
\*         .sort_values('Paid', ascending=False).head(50)
LeagueOf(filt) ==
    LET keys == GroupKeys(filt, "Support_Item_Number", ItemOrder)
        rows == [i \in 1..Len(keys) |->
                    LET g == SelectSeq(filt, LAMBDA r : r.Support_Item_Number = keys[i])
                    IN  [Support_Item_Number |-> keys[i],
                         Claims |-> CountCol(g, "Claim_ID"),
                         Paid |-> SumCol(g, "Paid_UnitPrice_AUD"),
                         Avg_Price |-> Div(SumCol(g, "Original_Claimed_UnitPrice_AUD"),
                                           CountNum(g, "Original_Claimed_UnitPrice_AUD"))]]
        sorted == SortByPaidDesc(rows)
    IN  SubSeq(sorted, 1, IF Len(sorted) < LeagueHead THEN Len(sorted) ELSE LeagueHead)

Tables ==
    /\ pc = "charts"
    /\ curve' = CurveOf(filtered)
    /\ league' = LeagueOf(filtered)
    /\ shown' = shown \o <<"Cumulative paid-claim share", "Top support items",
                           "Raw claim rows">>
    /\ pc' = "done"
    /\ UNCHANGED <<upload, files, dfs, df_part, df_plan, df_claim, merged,
                   f_sel, toggles, filtered, plan_draw, draw_filt, kpi,
                   util_state, util_mmm, error>>

----------------------------------------------------------------------------
(* The uploads and the tables of the model *)

\* the most rows the three uploaded tables hold together
MaxRows == 4

ParticipantRows == {
    [Hashed_Participant_ID |-> "P1", State |-> "NSW", MMM_Code |-> "MM1",
     Age_Band |-> "A1", Primary_Disability |-> "Multiple Sclerosis"],
    [Hashed_Participant_ID |-> "P2", State |-> "VIC", MMM_Code |-> "MM2",
     Age_Band |-> "A2", Primary_Disability |-> Null],
    [Hashed_Participant_ID |-> Null, State |-> "QLD", MMM_Code |-> "MM1",
     Age_Band |-> "A1", Primary_Disability |-> "Autism"]}

PlanRows == {
    [Plan_ID |-> "PL1", Hashed_Participant_ID |-> "P1", Plan_Start_Date |-> 5,
     Capital_AT_Budget_Total_AUD |-> 1000, Plan_Management_Mode |-> "M1"],
    [Plan_ID |-> "PL2", Hashed_Participant_ID |-> "P2", Plan_Start_Date |-> 7,
     Capital_AT_Budget_Total_AUD |-> 0, Plan_Management_Mode |-> "M2"],
    [Plan_ID |-> Null, Hashed_Participant_ID |-> Null, Plan_Start_Date |-> 0,
     Capital_AT_Budget_Total_AUD |-> 1000, Plan_Management_Mode |-> "M1"]}

ClaimRows == {
    [Claim_ID |-> "C1", Plan_ID |-> "PL1", Service_Date |-> 10,
     Support_Item_Number |-> "I1", Original_Claimed_UnitPrice_AUD |-> 300,
     Paid_UnitPrice_AUD |-> 300, Benchmark_UnitPrice_AUD |-> 250,
     Source_System |-> "S1"],
    [Claim_ID |-> "C2", Plan_ID |-> "PL1", Service_Date |-> 20,
     Support_Item_Number |-> "I2", Original_Claimed_UnitPrice_AUD |-> 100,
     Paid_UnitPrice_AUD |-> 0, Benchmark_UnitPrice_AUD |-> 150,
     Source_System |-> "S1"],
    [Claim_ID |-> "C3", Plan_ID |-> "PL2", Service_Date |-> 3,
     Support_Item_Number |-> "I1", Original_Claimed_UnitPrice_AUD |-> 100,
     Paid_UnitPrice_AUD |-> 300, Benchmark_UnitPrice_AUD |-> 0,
     Source_System |-> "S2"],
    [Claim_ID |-> "C4", Plan_ID |-> Null, Service_Date |-> 3,
     Support_Item_Number |-> Null, Original_Claimed_UnitPrice_AUD |-> 100,
     Paid_UnitPrice_AUD |-> 300, Benchmark_UnitPrice_AUD |-> NaN,
     Source_System |-> "S1"],
    [Claim_ID |-> Null, Plan_ID |-> "PL1", Service_Date |-> 12,
     Support_Item_Number |-> "I2", Original_Claimed_UnitPrice_AUD |-> 100,
     Paid_UnitPrice_AUD |-> 100, Benchmark_UnitPrice_AUD |-> 150,
     Source_System |-> "S2"],
    [Claim_ID |-> "C5", Plan_ID |-> "PL2", Service_Date |-> BadDate,
     Support_Item_Number |-> "I2", Original_Claimed_UnitPrice_AUD |-> NaN,
     Paid_UnitPrice_AUD |-> 0, Benchmark_UnitPrice_AUD |-> 150,
     Source_System |-> "S2"]}

\* the sequences over S of length at most n
SeqUpTo(S, n) == UNION {[1..k -> S] : k \in 0..n}

\* the members an uploaded archive may hold
Members ==
    {[tail |-> t, macosx |-> FALSE] : t \in EXPECTED}
    \cup {[tail |-> "c_claim_line.csv", macosx |-> TRUE],
          [tail |-> "readme.txt", macosx |-> FALSE]}

CsvNames == {"a_participant.csv", "c_claim_line.csv", "claims_2024.csv"}

Uploads ==
    {NoUpload}
    \cup {[ext |-> "csv", name |-> n, members |-> {}] : n \in CsvNames}
    \cup {[ext |-> "zip", name |-> "data.zip", members |-> m] : m \in SUBSET Members}

CompleteZip == [ext |-> "zip", name |-> "data.zip",
                members |-> {[tail |-> t, macosx |-> FALSE] : t \in EXPECTED}]

\* the example dataset: one participant, one plan, two claim lines
ExampleFiles ==
    [n \in Required |->
        IF n = "a_participant.csv"
        THEN <<[Hashed_Participant_ID |-> "P1", State |-> "NSW", MMM_Code |-> "MM1",
                Age_Band |-> "A1", Primary_Disability |-> "Multiple Sclerosis"]>>
        ELSE IF n = "b_plan.csv"
        THEN <<[Plan_ID |-> "PL1", Hashed_Participant_ID |-> "P1",
                Plan_Start_Date |-> 5, Capital_AT_Budget_Total_AUD |-> 1000,
                Plan_Management_Mode |-> "M1"]>>
        ELSE <<[Claim_ID |-> "C1", Plan_ID |-> "PL1", Service_Date |-> 10,
                Support_Item_Number |-> "I1", Original_Claimed_UnitPrice_AUD |-> 300,
                Paid_UnitPrice_AUD |-> 300, Benchmark_UnitPrice_AUD |-> 250,
                Source_System |-> "S1"],
               [Claim_ID |-> "C2", Plan_ID |-> "PL1", Service_Date |-> 20,
                Support_Item_Number |-> "I2", Original_Claimed_UnitPrice_AUD |-> 100,
                Paid_UnitPrice_AUD |-> 0, Benchmark_UnitPrice_AUD |-> 150,
                Source_System |-> "S1"]>>]

\* any upload of the example dataset, or a complete archive of any tables
Init ==
    /\ pc = "start"
    /\ \/ /\ upload \in Uploads
          /\ files = ExampleFiles
       \/ /\ upload = CompleteZip
          /\ \E part \in SeqUpTo(ParticipantRows, MaxRows) :
             \E plan \in SeqUpTo(PlanRows, MaxRows - Len(part)) :
             \E claim \in SeqUpTo(ClaimRows, MaxRows - Len(part) - Len(plan)) :
                files = [n \in Required |->
                            IF n = "a_participant.csv" THEN part
                            ELSE IF n = "b_plan.csv" THEN plan ELSE claim]
    /\ dfs = <<>>
    /\ EmptyFrames
    /\ f_sel = [c \in FilterColSet |-> {}]
    /\ toggles = [degenerative |-> FALSE, breaches |-> FALSE]
    /\ kpi = NoKpi
    /\ shown = <<>>
    /\ error = ""

Next ==
    \/ Load \/ Gate \/ Assign \/ Normalize \/ Merge \/ Select \/ Toggle
    \/ Filter \/ PlanDraw \/ Kpi \/ Charts \/ Tables

Spec == Init /\ [][Next]_vars

----------------------------------------------------------------------------
(* Properties *)

\* the positions at which merged is still the result of the two joins
Joined == {"merged", "selected"}
\* the positions after the two toggles, after the filter, after the draw-down
AfterToggle == {"toggled", "filtered", "nodata", "drawn", "kpi", "charts", "done"}
AfterFilter == {"filtered", "nodata", "drawn", "kpi", "charts", "done"}
AfterDraw == {"drawn", "kpi", "charts", "done"}
AfterCharts == {"charts", "done"}

Restrict(r, cols) == [c \in cols |-> r[c]]
ClaimCols == {"Claim_ID", "Plan_ID", "Service_Date", "Support_Item_Number",
              "Original_Claimed_UnitPrice_AUD", "Paid_UnitPrice_AUD",
              "Benchmark_UnitPrice_AUD", "Source_System"}

\* C1: the merged frame built by the two left joins holds exactly one row per
\* claim line, in the claim lines' order, for every participant, plan and
\* claim-line table.
C1_OneRowPerClaimLine ==
    pc \in Joined =>
        /\ Len(merged) = Len(df_claim)
        /\ \A i \in 1..Len(merged) : Restrict(merged[i], ClaimCols) = df_claim[i]

\* C2: with 'Breaches only' on, a row is kept if and only if its benchmark is
\* greater than 0 and its claimed price is greater than its benchmark.
C2_BreachKeepsIffPositiveBenchmark ==
    (pc \in AfterToggle /\ toggles.breaches) =>
        LET all == MergedOf(df_claim, df_plan, df_part)
            m1 == IF toggles.degenerative THEN DegenerativeOnly(all) ELSE all
        IN  merged = SelectSeq(m1, LAMBDA r :
                        /\ r.Benchmark_UnitPrice_AUD # NaN
                        /\ r.Benchmark_UnitPrice_AUD > 0
                        /\ r.Original_Claimed_UnitPrice_AUD # NaN
                        /\ r.Original_Claimed_UnitPrice_AUD > r.Benchmark_UnitPrice_AUD)

\* C3: when the loaded mapping lacks the participant, the plan or the
\* claim-line table, the run halts at the 'upload the required CSVs' prompt and
\* goes no further.
C3_MissingTableHaltsAtPrompt ==
    (pc \notin {"start", "loaded"} /\ ~(Required \subseteq DOMAIN dfs)) =>
        /\ pc = "prompt"
        /\ error = ""
        /\ shown # <<>>
        /\ shown[Len(shown)] = "info: Please upload the required CSVs"

\* C4: every plan whose budget is zero has the same DrawPct, a sentinel that is
\* neither infinity nor zero, whatever the plan's Paid.
C4_ZeroBudgetDrawPctIsSentinel ==
    pc \in AfterDraw =>
        \A i, j \in 1..Len(plan_draw) :
            (plan_draw[i].Capital_AT_Budget_Total_AUD = 0
             /\ plan_draw[j].Capital_AT_Budget_Total_AUD = 0) =>
                /\ plan_draw[i].DrawPct = plan_draw[j].DrawPct
                /\ plan_draw[i].DrawPct.k # "inf"
                /\ ~FEqInt(plan_draw[i].DrawPct, 0)

\* C5: when the toggles and the selections leave no merged row, the run shows
\* 'No data matches filters' and stops: no draw-down, KPI, grouped utilisation,
\* cumulative series or league table is computed.
C5_EmptyFilteredStops ==
    (pc \in AfterFilter /\ filtered = <<>>) =>
        /\ pc = "nodata"
        /\ shown[Len(shown)] = "warning: No data matches filters"
        /\ plan_draw = <<>> /\ draw_filt = <<>> /\ kpi = NoKpi
        /\ util_state = <<>> /\ util_mmm = <<>> /\ curve = <<>> /\ league = <<>>
        /\ \A i \in 1..Len(shown) : shown[i] # "KPI cards"

\* the toggles and a narrowed selection emptied a merged frame that had rows
C5_Witness ==
    /\ pc = "nodata"
    /\ MergedOf(df_claim, df_plan, df_part) # <<>>
    /\ toggles.breaches
    /\ f_sel # DefaultSel(MergedOf(df_claim, df_plan, df_part))

\* C6: in the two joins of the merged frame and in the plan-to-participant
\* join of the draw-down table, a row whose join key is missing matches no row
\* of the other table; its joined fields are missing.
C6_MissingKeyNeverMatches ==
    /\ pc \in Joined =>
          \A i \in 1..Len(merged) :
              /\ merged[i].Plan_ID = Null =>
                    Restrict(merged[i], DOMAIN NoPlan) = NoPlan
              /\ merged[i].Hashed_Participant_ID = Null =>
                    Restrict(merged[i], DOMAIN NoPart) = NoPart
    /\ pc \in AfterDraw =>
          \A i \in 1..Len(plan_draw) :
              plan_draw[i].Hashed_Participant_ID = Null =>
                  Restrict(plan_draw[i], DOMAIN NoPartBase) = NoPartBase

\* C7: the cumulative series is ordered by ascending day offset, its percentage
\* never decreases, and its last percentage equals 100.
C7_CurveAscendsTo100 ==
    pc = "done" =>
        /\ \A i \in 1..(Len(curve) - 1) :
              /\ curve[i].Day < curve[i + 1].Day
              /\ FLeq(curve[i].Pct, curve[i + 1].Pct)
        /\ curve # <<>> => FEqInt(curve[Len(curve)].Pct, 100)

\* C8: in the utilisation-by-State and by-MMM-region series a group whose
\* summed budget is zero has utilisation 0; every other group has summed Paid
\* over summed budget times 100.
C8_ZeroBudgetGroupIsZero ==
    pc \in AfterCharts =>
        \A u \in {util_state, util_mmm} :
            \A i \in 1..Len(u) :
                IF u[i].Budget = 0
                THEN FEqInt(u[i].Util, 0)
                ELSE u[i].Util = Quot(u[i].Paid * 100, u[i].Budget)

LinesOf(planId) == SelectSeq(filtered, LAMBDA r : r.Plan_ID = planId)

\* C10: the draw set of the KPIs holds exactly the plans whose Plan_ID is on a
\* filtered claim line, and every plan counted as '0% draw' has a filtered
\* claim line and its filtered claim lines sum to a paid amount of zero.
C10_DrawSetIsPlansWithLines ==
    pc \in {"kpi", "charts", "done"} =>
        /\ draw_filt = SelectSeq(plan_draw, LAMBDA r : LinesOf(r.Plan_ID) # <<>>)
        /\ \A i \in 1..Len(draw_filt) :
              FEqInt(draw_filt[i].DrawPct, 0) =>
                  /\ LinesOf(draw_filt[i].Plan_ID) # <<>>
                  /\ SumCol(LinesOf(draw_filt[i].Plan_ID), "Paid_UnitPrice_AUD") = 0

====
